---- MODULE Spec2Model ----
(***************************************************************************)
(* Model of the `with` command wrapper: the tokenizer and the two action   *)
(* resolvers (parser.rs, scripts.rs), the REPL loop of main.rs, the child  *)
(* process runners of main.rs and executor.rs, and the chain of nested     *)
(* processes they create.  Text is modelled as sequences of one-character  *)
(* strings, so that trimming, quoting and the escape marker are computed   *)
(* as the code computes them.                                              *)
(***************************************************************************)
EXTENDS Integers, Sequences, FiniteSets, TLC

(***************************************************************************)
(* Bounds                                                                  *)
(***************************************************************************)
\* longest enumerated input line (lines over Alphabet, besides NamedLines)
MaxLen == 2
\* deepest chain of live processes (wrapper instances and their leaf child)
MaxDepth == 3

(***************************************************************************)
(* Option<T> as a sequence of length at most one                           *)
(***************************************************************************)
None == <<>>
Some(x) == <<x>>
IsSome(o) == Len(o) = 1
Unwrap(o) == o[1]

(***************************************************************************)
(* Text                                                                    *)
(***************************************************************************)
S_e == <<"e">>
S_q == <<"q">>
S_exit == <<"e", "x", "i", "t">>
S_quit == <<"q", "u", "i", "t">>
S_cd == <<"c", "d">>
S_clear == <<"c", "l", "e", "a", "r">>
S_cls == <<"c", "l", "s">>
S_pwd == <<"p", "w", "d">>
S_history == <<"h", "i", "s", "t", "o", "r", "y">>
S_help == <<"h", "e", "l", "p">>
S_with == <<"w", "i", "t", "h">>
S_git == <<"g", "i", "t">>
S_ls == <<"l", "s">>
S_a == <<"a">>
S_slash == <<"/">>
SP == <<" ">>

\* parser.rs:23, main.rs:12, scripts.rs:16
EXIT_COMMANDS == {S_e, S_q, S_exit, S_quit}

\* str::trim strips Unicode White_Space at both ends
TrimSpace == {" ", "\t", "\n", "\r"}
\* shell_words::split separates words at these (outside quotes)
SplitSpace == {" ", "\t", "\n"}

RECURSIVE TrimStart(_)
TrimStart(s) ==
    IF s # <<>> /\ Head(s) \in TrimSpace THEN TrimStart(Tail(s)) ELSE s

RECURSIVE TrimEnd(_)
TrimEnd(s) ==
    IF s # <<>> /\ s[Len(s)] \in TrimSpace
    THEN TrimEnd(SubSeq(s, 1, Len(s) - 1))
    ELSE s

trim_start_only(s) == TrimStart(s)
trim(s) == TrimEnd(TrimStart(s))

starts_with_bang(s) == s # <<>> /\ Head(s) = "!"

\* EXIT_COMMANDS.contains(&line)
is_exit_only_word(line) == line = S_exit
is_exit_command(line) == line \in EXIT_COMMANDS

(***************************************************************************)
(* shell_words::split: Ok(words) is [ok |-> TRUE, words |-> ...], a        *)
(* ParseError (input ends inside a quote) is [ok |-> FALSE, ...].          *)
(* st is the state of the scanner, word the word being built.              *)
(***************************************************************************)
SplitOk(ws) == [ok |-> TRUE, words |-> ws]
SplitErr == [ok |-> FALSE, words |-> <<>>]

RECURSIVE SplitFrom(_, _, _, _, _)
SplitFrom(s, i, st, word, words) ==
    IF i > Len(s)
    THEN CASE st \in {"Delimiter", "Comment"} -> SplitOk(words)
           [] st \in {"Backslash", "UnquotedBackslash"} ->
                    SplitOk(Append(words, Append(word, "\\")))
           [] st = "Unquoted" -> SplitOk(Append(words, word))
           [] OTHER -> SplitErr
    ELSE LET c == s[i] IN
         CASE st = "Delimiter" ->
                CASE c = "'" -> SplitFrom(s, i + 1, "SingleQuoted", word, words)
                  [] c = "\"" -> SplitFrom(s, i + 1, "DoubleQuoted", word, words)
                  [] c = "\\" -> SplitFrom(s, i + 1, "Backslash", word, words)
                  [] c \in SplitSpace -> SplitFrom(s, i + 1, "Delimiter", word, words)
                  [] c = "#" -> SplitFrom(s, i + 1, "Comment", word, words)
                  [] OTHER -> SplitFrom(s, i + 1, "Unquoted", Append(word, c), words)
           [] st = "Backslash" ->
                IF c = "\n"
                THEN SplitFrom(s, i + 1, "Delimiter", word, words)
                ELSE SplitFrom(s, i + 1, "Unquoted", Append(word, c), words)
           [] st = "Unquoted" ->
                CASE c = "'" -> SplitFrom(s, i + 1, "SingleQuoted", word, words)
                  [] c = "\"" -> SplitFrom(s, i + 1, "DoubleQuoted", word, words)
                  [] c = "\\" -> SplitFrom(s, i + 1, "UnquotedBackslash", word, words)
                  [] c \in SplitSpace ->
                        SplitFrom(s, i + 1, "Delimiter", <<>>, Append(words, word))
                  [] OTHER -> SplitFrom(s, i + 1, "Unquoted", Append(word, c), words)
           [] st = "UnquotedBackslash" ->
                IF c = "\n"
                THEN SplitFrom(s, i + 1, "Unquoted", word, words)
                ELSE SplitFrom(s, i + 1, "Unquoted", Append(word, c), words)
           [] st = "SingleQuoted" ->
                IF c = "'"
                THEN SplitFrom(s, i + 1, "Unquoted", word, words)
                ELSE SplitFrom(s, i + 1, "SingleQuoted", Append(word, c), words)
           [] st = "DoubleQuoted" ->
                CASE c = "\"" -> SplitFrom(s, i + 1, "Unquoted", word, words)
                  [] c = "\\" -> SplitFrom(s, i + 1, "DoubleQuotedBackslash", word, words)
                  [] OTHER -> SplitFrom(s, i + 1, "DoubleQuoted", Append(word, c), words)
           [] st = "DoubleQuotedBackslash" ->
                CASE c = "\n" -> SplitFrom(s, i + 1, "DoubleQuoted", word, words)
                  \* the escapable characters; the backquote, also one of them,
                  \* is outside the modelled alphabet
                  [] c \in {"$", "\"", "\\"} ->
                        SplitFrom(s, i + 1, "DoubleQuoted", Append(word, c), words)
                  [] OTHER ->
                        SplitFrom(s, i + 1, "DoubleQuoted",
                                  Append(Append(word, "\\"), c), words)
           [] st = "Comment" ->
                IF c = "\n"
                THEN SplitFrom(s, i + 1, "Delimiter", word, words)
                ELSE SplitFrom(s, i + 1, "Comment", word, words)

split_lenient(s) ==
    [SplitFrom(s, 1, "Delimiter", <<>>, <<>>) EXCEPT !.ok = TRUE]
split(s) == SplitFrom(s, 1, "Delimiter", <<>>, <<>>)

(***************************************************************************)
(* CommandAction (parser.rs:4-14).  One record shape for every variant:    *)
(* program/args are used by Execute, args by Clear and Pwd, path by        *)
(* ChangeDirectory (an Option<String>).                                    *)
(***************************************************************************)
Action(t, p, a, d) == [type |-> t, program |-> p, args |-> a, path |-> d]
Execute(p, a) == Action("Execute", p, a, None)
ChangeDirectory(d) == Action("ChangeDirectory", <<>>, <<>>, d)
Clear(a) == Action("Clear", <<>>, a, None)
Pwd(a) == Action("Pwd", <<>>, a, None)
Plain(t) == Action(t, <<>>, <<>>, None)

\* TargetContext (parser.rs:17-20)
TargetContext(p, a) == [program |-> p, args |-> a]

(***************************************************************************)
(* parser.rs parse_cmd(line, context)                                      *)
(***************************************************************************)
\* lines 48-56: nothing was typed
empty_without_args(context) ==
    IF IsSome(context)
    THEN Execute(Unwrap(context).program, <<>>)
    ELSE Plain("DoNothing")
empty_action(context) ==
    IF IsSome(context)
    THEN Execute(Unwrap(context).program, Unwrap(context).args)
    ELSE Plain("DoNothing")

\* lines 63-70: cd
cd_last_argument(args) ==
    ChangeDirectory(IF Len(args) > 1 THEN Some(args[Len(args)]) ELSE None)
cd_action(args) ==
    ChangeDirectory(IF Len(args) > 1 THEN Some(args[2]) ELSE None)

\* lines 72, 76: args.remove(0) drops the name of the built-in
keep_first(args) == args
remove_first(args) == Tail(args)

\* lines 83-96: the first word starts with the escape marker
escape_keeps_marker(args) ==
    IF Len(args[1]) > 1
    THEN Execute(args[1], Tail(args))
    ELSE IF Tail(args) = <<>>
         THEN Plain("DoNothing")
         ELSE Execute(args[1], Tail(args))
escape_action(args) ==
    IF Len(args[1]) > 1
    THEN Execute(Tail(args[1]), Tail(args))
    ELSE IF Tail(args) = <<>>
         THEN Plain("DoNothing")
         ELSE Execute(args[2], Tail(Tail(args)))

\* lines 99-112: anything else
normal_args_last(context, args) ==
    IF IsSome(context)
    THEN Execute(Unwrap(context).program, args \o Unwrap(context).args)
    ELSE Execute(args[1], Tail(args))
normal_action(context, args) ==
    IF IsSome(context)
    THEN Execute(Unwrap(context).program, Unwrap(context).args \o args)
    ELSE Execute(args[1], Tail(args))

parse_cmd(rawline, context) ==
    LET line == trim(rawline) IN
    IF is_exit_command(line) THEN Plain("Exit")
    ELSE LET r == split(line) IN
    IF ~r.ok THEN Plain("Error")
    ELSE LET args == r.words IN
    IF args = <<>> THEN empty_action(context)
    ELSE LET first_arg == args[1] IN
    CASE first_arg = S_cd -> cd_action(args)
      [] first_arg \in {S_clear, S_cls} -> Clear(remove_first(args))
      [] first_arg = S_pwd -> Pwd(remove_first(args))
      [] first_arg = S_history -> Plain("History")
      [] first_arg = S_help -> Plain("Help")
      [] OTHER ->
            IF starts_with_bang(first_arg)
            THEN escape_action(args)
            ELSE normal_action(context, args)

(***************************************************************************)
(* scripts.rs parse_cmd(line, target_cmd): the earlier resolver, whose     *)
(* only built-in is cd and whose escape test comes first                   *)
(***************************************************************************)
scripts_parse_cmd(rawline, target_cmd) ==
    LET line == trim(rawline) IN
    IF is_exit_command(line) THEN Plain("Exit")
    ELSE LET r == split(line) IN
    IF ~r.ok THEN Plain("Error")
    ELSE LET args == r.words IN
    IF args = <<>>
    THEN IF IsSome(target_cmd)
         THEN Execute(Unwrap(target_cmd), args)
         ELSE Plain("DoNothing")
    ELSE LET first_arg == args[1] IN
    IF starts_with_bang(first_arg)
    THEN IF Len(first_arg) > 1
         THEN Execute(Tail(first_arg), Tail(args))
         ELSE IF Tail(args) = <<>>
              THEN Plain("DoNothing")
              ELSE Execute(args[2], Tail(Tail(args)))
    ELSE IF first_arg = S_cd
    THEN ChangeDirectory(IF Len(args) > 1 THEN Some(args[2]) ELSE None)
    ELSE IF IsSome(target_cmd)
         THEN Execute(Unwrap(target_cmd), args)
         ELSE Execute(first_arg, Tail(args))

(***************************************************************************)
(* executor.rs compute_next_stack(parent_stack, current_ctx)               *)
(***************************************************************************)
next_stack_empty_is_root(parent_stack, current_ctx) ==
    IF IsSome(parent_stack) /\ Unwrap(parent_stack) # <<>>
    THEN IF IsSome(current_ctx)
         THEN Unwrap(parent_stack) \o S_slash \o Unwrap(current_ctx)
         ELSE Unwrap(parent_stack) \o S_slash
    ELSE IF IsSome(current_ctx)
         THEN Unwrap(current_ctx)
         ELSE <<>>
next_stack_no_trailing_slash(parent_stack, current_ctx) ==
    IF IsSome(parent_stack)
    THEN IF IsSome(current_ctx)
         THEN Unwrap(parent_stack) \o S_slash \o Unwrap(current_ctx)
         ELSE Unwrap(parent_stack)
    ELSE IF IsSome(current_ctx)
         THEN Unwrap(current_ctx)
         ELSE <<>>
compute_next_stack(parent_stack, current_ctx) ==
    IF IsSome(parent_stack)
    THEN IF IsSome(current_ctx)
         THEN Unwrap(parent_stack) \o S_slash \o Unwrap(current_ctx)
         ELSE Unwrap(parent_stack) \o S_slash
    ELSE IF IsSome(current_ctx)
         THEN Unwrap(current_ctx)
         ELSE <<>>

(***************************************************************************)
(* The environment: exit statuses, the file system, the installed programs *)
(***************************************************************************)
\* executor.rs:74,76 - the status that makes the runner exit too
SENTINEL == 127
\* main.rs:195,205 - usage error, run_repl error
EXIT_FAILURE == 1
\* status of a Rust process that panicked
EXIT_PANIC == 101
EXIT_OK == 0
\* status.code() is None: the child was killed by a signal
NoCode == -1

\* statuses an ordinary program may exit with
ProgCodes == {EXIT_OK, EXIT_FAILURE, SENTINEL}

D_root == S_slash
D_a == <<"/", "a">>
Dirs == {D_root, D_a}
S_dotdot == <<".", ".">>

\* env::set_current_dir(path) from cwd: Some(new cwd), or None when it fails
set_current_dir(cwd, path) ==
    CASE path = S_slash -> Some(D_root)
      [] path = D_a -> Some(D_a)
      [] path = S_a /\ cwd = D_root -> Some(D_a)
      [] path = S_dotdot -> Some(D_root)
      [] OTHER -> None

\* Path::file_stem: None for the root directory
file_stem(path) == IF path = D_root THEN None ELSE Some(S_a)

\* programs Command::spawn finds; `with` is this program
Installed == {S_with, S_git, S_ls}

(***************************************************************************)
(* What one input line makes the loop do: d is "break", "execute", "cd",   *)
(* "usage", "error", "local", "noop" or "panic"                            *)
(***************************************************************************)
Decision(d, p, a, t) == [d |-> d, program |-> p, args |-> a, path |-> t]
Decide(d) == Decision(d, <<>>, <<>>, <<>>)

\* main.rs run_repl, lines 111-167: the handling of a line that was read
main_line(rawline, target_cmd) ==
    LET line == trim(rawline) IN
    IF is_exit_command(line) THEN Decide("break")
    ELSE LET r == split(line) IN
    IF ~r.ok THEN Decide("error")
    ELSE LET args == r.words IN
    IF args = <<>> THEN Decision("execute", target_cmd, args, <<>>)
    ELSE IF starts_with_bang(args[1])
    THEN LET separate_flg == Len(args[1]) = 1
             rest == IF separate_flg THEN Tail(args) ELSE args
         IN  IF rest = <<>>
             THEN Decide("panic")   \* args.remove(0) on an empty Vec
             ELSE LET cmd_with_bang == Head(rest)
                      tmp_cmd == IF ~separate_flg THEN Tail(cmd_with_bang)
                                                  ELSE cmd_with_bang
                  IN  Decision("execute", tmp_cmd, Tail(rest), <<>>)
    ELSE IF args[1] = S_cd
    THEN IF Len(args) >= 2
         THEN Decision("cd", <<>>, <<>>, args[2])
         ELSE Decide("usage")
    ELSE Decision("execute", target_cmd, args, <<>>)

\* the loop around parse_cmd: what each CommandAction makes the loop do
dispatch(action) ==
    CASE action.type = "Execute" ->
            Decision("execute", action.program, action.args, <<>>)
      [] action.type = "ChangeDirectory" ->
            IF IsSome(action.path)
            THEN Decision("cd", <<>>, <<>>, Unwrap(action.path))
            ELSE Decide("noop")
      [] action.type \in {"Clear", "Pwd", "History", "Help"} -> Decide("local")
      [] action.type = "DoNothing" -> Decide("noop")
      [] action.type = "Exit" -> Decide("break")
      [] action.type = "Error" -> Decide("error")

\* the bound context of a wrapper started with argv (program name excluded)
context_of(argv) ==
    IF argv = <<>> THEN None ELSE Some(TargetContext(Head(argv), Tail(argv)))

context_program(argv) == IF argv = <<>> THEN None ELSE Some(Head(argv))

(***************************************************************************)
(* Input lines                                                             *)
(***************************************************************************)
Alphabet == {" ", "!", "\"", "'", "\\", "q"}

SeqsUpTo(S, n) == UNION {[1..k -> S] : k \in 0..n}

Words(ws) ==
    LET RECURSIVE J(_)
        J(w) == IF Len(w) = 1 THEN w[1] ELSE w[1] \o SP \o J(Tail(w))
    IN  J(ws)

\* the lines typed at the prompts of the process chain: every kind of line
\* the resolvers tell apart
ReplLines ==
    { <<>>, S_e, S_quit, S_exit, SP \o S_q \o SP,
      <<"\"">> \o S_exit \o <<"\"">>,
      S_cd, Words(<<S_cd, S_slash>>), Words(<<S_cd, S_a>>),
      Words(<<S_cd, S_a, S_ls>>), Words(<<S_cd, S_ls>>),
      S_pwd, S_cls, S_history, S_help, Words(<<S_clear, S_a>>),
      S_ls, Words(<<S_ls, S_a>>),
      S_with, Words(<<S_with, S_git>>),
      <<"!">> \o S_ls, Words(<<<<"!">>, S_ls, S_a>>), <<"!">> \o S_a,
      Words(<<<<"!">> \o S_with, S_git>>),
      <<"!">>, <<" ", "!", " ">>, <<"'", "!", "'">>,
      <<"\"">> \o S_a, S_ls \o <<" ", "'">> \o S_a }

\* the lines the resolvers are applied to on their own
Lines ==
    ReplLines \cup SeqsUpTo(Alphabet, MaxLen)
    \cup { S_q, S_clear, S_git, S_a, Words(<<S_pwd, S_a>>),
           Words(<<S_help, S_a>>), Words(<<S_history, S_a, S_ls>>),
           Words(<<S_cls, S_a, S_ls>>), Words(<<S_ls, S_a, S_git>>),
           <<" ", " ", "\t">>,
           Words(<<S_exit, S_a>>), SP \o S_exit, S_quit \o <<"\t">>,
           Words(<<S_with, S_git, S_a>>), <<"!">> \o S_with,
           <<"'">> \o S_pwd }

(***************************************************************************)
(* State: the chain of live processes, outermost first.  A wrapper blocks  *)
(* on the child it spawned, so the process tree is a chain; the last       *)
(* element is the running one.                                             *)
(***************************************************************************)
VARIABLES
    procs,  \* the chain of processes
    last,   \* the step taken last: which process, which line, what it did
    probe   \* a resolver applied on its own: its input and its result

vars == <<procs, last, probe>>

\* kind: "main" runs main.rs, "modular" runs the loop over parse_cmd and
\* executor.rs, "prog" is any other program.  stack is the process's own
\* WITH_CONTEXT_STACK; given is a history of the values it handed to its
\* children: the first one and, from the second child on, the latest one.
Proc(kind, pc, argv, stack, cwd, base, code) ==
    [kind |-> kind, pc |-> pc, argv |-> argv, stack |-> stack,
     cwd |-> cwd, base |-> base, code |-> code, given |-> <<>>]

\* k: the kind of step; who: the index of the process that took it; line and
\* dec: the line read and what it was resolved to; res: what acting on it
\* did; status: the child's exit status seen by wait
Event(k, who, line, dec, res, status) ==
    [k |-> k, who |-> who, line |-> line, dec |-> dec, res |-> res,
     status |-> status]

WrapperKinds == {"main", "modular"}
RootArgvs == {<<>>, <<S_git>>, <<S_git, S_a>>}

Top == Len(procs)
Replace(i, p) == [procs EXCEPT ![i] = p]
Exited(p, code) == [p EXCEPT !.pc = "exited", !.code = code]

\* op: "input" before a resolver is applied, then the resolver's name
\* inherited, own, stack: the arguments and the result of compute_next_stack
\* chain: the bound programs of nested instances, outermost first
Probe(op, line, ctx, act, dec) ==
    [op |-> op, line |-> line, ctx |-> ctx, act |-> act, dec |-> dec,
     inherited |-> None, own |-> None, stack |-> <<>>, chain |-> <<>>]

Idle == Probe("idle", <<>>, None, Plain("none"), Decide("noop"))

Init ==
    /\ \E kind \in WrapperKinds, argv \in RootArgvs, cwd \in Dirs :
          procs = << Proc(kind, "start", argv, None, cwd, cwd, NoCode) >>
    /\ last = Event("init", 0, <<>>, Decide("noop"), "none", NoCode)
    /\ probe = Idle

(***************************************************************************)
(* Acting on a line                                                        *)
(***************************************************************************)
\* Command::spawn succeeds for an installed program while the process table
\* has room
spawn_ok(program) == program \in Installed /\ Len(procs) < MaxDepth

\* the process Command::spawn starts: it inherits the working directory and
\* gets `stack` as WITH_CONTEXT_STACK (None: the variable is not set)
Children(program, args, stack, cwd) ==
    IF program = S_with
    THEN {Proc(k, "start", args, stack, cwd, cwd, NoCode) : k \in WrapperKinds}
    ELSE {Proc("prog", "run", <<>>, stack, cwd, cwd, NoCode)}

\* the Err arm of Command::spawn: the diagnostic is printed and the runner
\* returns to its caller
spawn_failure_exits(p) == Exited(p, SENTINEL)
spawn_failed(p) == p

\* the Ok arm of Command::spawn: the runner calls child.wait() and blocks
\* until the child has ended
spawn_in_background(p) == p
spawn_exports_stack(p) ==
    [p EXCEPT !.pc = "wait",
              !.stack = Some(compute_next_stack(p.stack, context_program(p.argv)))]
wait_for_child(p) == [p EXCEPT !.pc = "wait"]

\* the history of descriptors handed out, after one more child got `stack`
Handed(given, stack) ==
    IF given = <<>> THEN <<stack>> ELSE <<given[1], stack>>

\* env::set_current_dir(path) in the process p: on Err the message is printed
\* and nothing else happens
change_directory_or_root(p, path) ==
    LET r == set_current_dir(p.cwd, path)
    IN  [p EXCEPT !.cwd = IF IsSome(r) THEN Unwrap(r) ELSE D_root]
change_directory(p, path) ==
    LET r == set_current_dir(p.cwd, path)
    IN  IF IsSome(r) THEN [p EXCEPT !.cwd = Unwrap(r)] ELSE p

\* the process at the prompt acts on `line`, resolved to `dec`; a child, if
\* one is spawned, gets `stack`
Act(line, dec, stack) ==
    LET i == Top
        p == procs[i]
        ev(res) == Event("line", i, line, dec, res, NoCode)
    IN
    /\ UNCHANGED probe
    /\  \/ /\ dec.d = "break"
           /\ procs' = Replace(i, Exited(p, EXIT_OK))
           /\ last' = ev("exit")
        \/ /\ dec.d = "panic"
           /\ procs' = Replace(i, Exited(p, EXIT_PANIC))
           /\ last' = ev("panic")
        \/ /\ dec.d = "execute"
           /\ spawn_ok(dec.program)
           /\ \E c \in Children(dec.program, dec.args, stack, p.cwd) :
                 procs' = Append(Replace(i, [wait_for_child(p) EXCEPT
                                                !.given = Handed(p.given, c.stack)]),
                                 c)
           /\ last' = ev("spawned")
        \/ /\ dec.d = "execute"
           /\ ~spawn_ok(dec.program)
           /\ procs' = Replace(i, spawn_failed(p))
           /\ last' = ev("spawn_failed")
        \/ /\ dec.d = "cd"
           /\ procs' = Replace(i, change_directory(p, dec.path))
           /\ last' = ev(IF IsSome(set_current_dir(p.cwd, dec.path))
                         THEN "cd_ok" ELSE "cd_failed")
        \/ /\ dec.d \in {"usage", "error", "local", "noop"}
           /\ UNCHANGED procs
           /\ last' = ev("continue")

(***************************************************************************)
(* main.rs                                                                 *)
(***************************************************************************)
AtTop(kind, pc) == procs[Top].kind = kind /\ procs[Top].pc = pc

\* main(), lines 185-207, up to the loop of run_repl: exactly one argument,
\* or exit(1); Editor::new() may fail, and then exit(1) too
MainStart ==
    /\ UNCHANGED probe
    /\ AtTop("main", "start")
    /\ LET p == procs[Top] IN
       \/ /\ Len(p.argv) # 1
          /\ procs' = Replace(Top, Exited(p, EXIT_FAILURE))
          /\ last' = Event("start", Top, <<>>, Decide("noop"), "usage", NoCode)
       \/ /\ Len(p.argv) = 1
          /\ procs' = Replace(Top, Exited(p, EXIT_FAILURE))
          /\ last' = Event("start", Top, <<>>, Decide("noop"), "editor_failed", NoCode)
       \/ /\ Len(p.argv) = 1
          /\ procs' = Replace(Top, [p EXCEPT !.pc = "prompt", !.base = p.cwd])
          /\ last' = Event("start", Top, <<>>, Decide("noop"), "started", NoCode)

\* run_repl lines 97-102: building the prompt unwraps file_stem()
prompt_panics(p) == p.cwd # p.base /\ ~IsSome(file_stem(p.cwd))

MainPromptPanic ==
    /\ UNCHANGED probe
    /\ AtTop("main", "prompt")
    /\ prompt_panics(procs[Top])
    /\ procs' = Replace(Top, Exited(procs[Top], EXIT_PANIC))
    /\ last' = Event("prompt", Top, <<>>, Decide("panic"), "panic", NoCode)

\* run_repl lines 95-167 and 179: one iteration that reads a line; the child,
\* spawned by main.rs execute_child_process, inherits the environment
MainLine ==
    /\ AtTop("main", "prompt")
    /\ ~prompt_panics(procs[Top])
    /\ \E line \in ReplLines :
          Act(line, main_line(line, procs[Top].argv[1]), procs[Top].stack)

\* run_repl lines 168-176: Ctrl-C, Ctrl-D or a read error ends the loop
\* the errors readline() returns: Ctrl-C, Ctrl-D, anything else
ReadlineError == {"Interrupted", "Eof", "Other"}

MainReadErr ==
    /\ UNCHANGED probe
    /\ AtTop("main", "prompt")
    /\ ~prompt_panics(procs[Top])
    /\ procs' = Replace(Top, Exited(procs[Top], EXIT_OK))
    /\ \E err \in ReadlineError :
          last' = Event("readerr", Top, <<>>, Decide("break"), err, NoCode)

Waiting(kind) ==
    /\ Top >= 2
    /\ procs[Top].pc = "exited"
    /\ procs[Top - 1].kind = kind
    /\ procs[Top - 1].pc = "wait"

Reaped(parent) == Append(SubSeq(procs, 1, Top - 2), parent)

\* main.rs execute_child_process lines 69-74: wait returns, whatever the
\* status or the error, and the loop goes on
MainWait ==
    /\ UNCHANGED probe
    /\ Waiting("main")
    /\ procs' = Reaped([procs[Top - 1] EXCEPT !.pc = "prompt"])
    /\ \E ok \in BOOLEAN :
          last' = Event("wait", Top - 1, <<>>, Decide("noop"),
                        IF ok THEN "waited" ELSE "wait_failed",
                        IF ok THEN procs[Top].code ELSE NoCode)

(***************************************************************************)
(* The loop over parse_cmd, with executor.rs execute_child_process         *)
(***************************************************************************)
ModStart ==
    /\ UNCHANGED probe
    /\ AtTop("modular", "start")
    /\ procs' = Replace(Top, [procs[Top] EXCEPT !.pc = "prompt",
                                                !.base = procs[Top].cwd])
    /\ last' = Event("start", Top, <<>>, Decide("noop"), "started", NoCode)

\* one iteration: the line is resolved by parse_cmd; the child gets the
\* stack computed by executor.rs lines 56-64
ModLine ==
    /\ AtTop("modular", "prompt")
    /\ \E line \in ReplLines :
          LET p == procs[Top] IN
          Act(line, dispatch(parse_cmd(line, context_of(p.argv))),
              Some(compute_next_stack(p.stack, context_program(p.argv))))

\* an interrupt at the prompt is ignored
ModInterrupt ==
    /\ UNCHANGED probe
    /\ AtTop("modular", "prompt")
    /\ UNCHANGED procs
    /\ last' = Event("readerr", Top, <<>>, Decide("noop"), "Interrupted", NoCode)

\* does the runner follow a child that ended with `code`? (executor.rs 73-77)
follows_failure(code) == code # NoCode /\ code # EXIT_OK
follows_signal(code) == code = NoCode \/ code = SENTINEL
follows(code) == code # NoCode /\ code = SENTINEL

\* executor.rs execute_child_process lines 70-82
ExecWait ==
    /\ UNCHANGED probe
    /\ Waiting("modular")
    /\ \E ok \in BOOLEAN :
          LET parent == procs[Top - 1]
              code == procs[Top].code
          IN  /\ procs' =
                    Reaped(IF ok /\ follows(code)
                           THEN Exited(parent, SENTINEL)
                           ELSE [parent EXCEPT !.pc = "prompt"])
              /\ last' = Event("wait", Top - 1, <<>>, Decide("noop"),
                               IF ok THEN "waited" ELSE "wait_failed",
                               IF ok THEN code ELSE NoCode)

(***************************************************************************)
(* Any other program                                                       *)
(***************************************************************************)
ProgExit ==
    /\ UNCHANGED probe
    /\ AtTop("prog", "run")
    /\ \E code \in ProgCodes \cup {NoCode} :
          /\ procs' = Replace(Top, Exited(procs[Top], code))
          /\ last' = Event("progexit", Top, <<>>, Decide("noop"), "exit", code)

Next ==
    \/ MainStart
    \/ MainPromptPanic
    \/ MainLine
    \/ MainReadErr
    \/ MainWait
    \/ ModStart
    \/ ModLine
    \/ ModInterrupt
    \/ ExecWait
    \/ ProgExit

Spec == Init /\ [][Next]_vars

(***************************************************************************)
(* The resolvers on their own: every line of Lines with every context      *)
(***************************************************************************)
Contexts ==
    { None, Some(TargetContext(S_git, <<>>)),
      Some(TargetContext(S_git, <<S_a>>)) }

Inputs ==
    { Probe("input", line, ctx, Plain("none"), Decide("noop")) :
          line \in Lines, ctx \in Contexts }

\* the bound program names of a wrapper instance
OwnPrograms == {None, Some(S_git), Some(S_ls)}

\* the values WITH_CONTEXT_STACK can have after at most n nested spawns
RECURSIVE Inherited(_)
Inherited(n) ==
    IF n = 0 THEN {None}
    ELSE LET prev == Inherited(n - 1)
         IN  prev \cup { Some(compute_next_stack(st, own)) :
                             st \in prev, own \in OwnPrograms }

StackInputs ==
    { [Idle EXCEPT !.op = "stack_input", !.inherited = st, !.own = own] :
          st \in Inherited(MaxDepth - 1), own \in OwnPrograms }

\* the bound programs of up to MaxDepth nested instances
Chains == UNION {[1..d -> OwnPrograms] : d \in 1..MaxDepth}

\* WITH_CONTEXT_STACK as the innermost instance of `chain` sets it for the
\* process it spawns: the root finds the variable unset, every other
\* instance finds what its parent set (executor.rs lines 56-64)
RECURSIVE stack_for_child(_)
stack_for_child(chain) ==
    IF chain = <<>> THEN None
    ELSE Some(compute_next_stack(
                  stack_for_child(SubSeq(chain, 1, Len(chain) - 1)),
                  chain[Len(chain)]))

ChainInputs ==
    { [Idle EXCEPT !.op = "chain_input", !.chain = chain] : chain \in Chains }

InitResolve ==
    /\ procs = <<>>
    /\ last = Event("init", 0, <<>>, Decide("noop"), "none", NoCode)
    /\ probe \in Inputs \cup StackInputs \cup ChainInputs

\* the program name a context binds, as scripts.rs and main.rs take it
target_of(ctx) == IF IsSome(ctx) THEN Some(Unwrap(ctx).program) ELSE None

Resolve ==
    /\ probe.op = "input"
    /\ probe' = [probe EXCEPT !.op = "parse_cmd",
                              !.act = parse_cmd(probe.line, probe.ctx)]
    /\ UNCHANGED <<procs, last>>

ResolveScripts ==
    /\ probe.op = "input"
    /\ probe' = [probe EXCEPT
                    !.op = "scripts",
                    !.act = scripts_parse_cmd(probe.line, target_of(probe.ctx))]
    /\ UNCHANGED <<procs, last>>

\* main.rs always has a target program
ResolveInline ==
    /\ probe.op = "input"
    /\ IsSome(probe.ctx)
    /\ probe' = [probe EXCEPT
                    !.op = "run_repl",
                    !.dec = main_line(probe.line, Unwrap(probe.ctx).program)]
    /\ UNCHANGED <<procs, last>>

NextStack ==
    /\ probe.op = "stack_input"
    /\ probe' = [probe EXCEPT
                    !.op = "compute_next_stack",
                    !.stack = compute_next_stack(probe.inherited, probe.own)]
    /\ UNCHANGED <<procs, last>>

NestStack ==
    /\ probe.op = "chain_input"
    /\ probe' = [probe EXCEPT
                    !.op = "nested",
                    !.stack = Unwrap(stack_for_child(probe.chain))]
    /\ UNCHANGED <<procs, last>>

NextResolve ==
    \/ Resolve
    \/ ResolveScripts
    \/ ResolveInline
    \/ NextStack
    \/ NestStack

SpecResolve == InitResolve /\ [][NextResolve]_vars

(***************************************************************************)
(* Properties                                                              *)
(***************************************************************************)
IsWrapper(p) == p.kind \in WrapperKinds
EndedWith(p, code) == p.pc = "exited" /\ p.code = code
\* the step taken last was a wait that returned the child's status
Waited == last.k = "wait" /\ last.res = "waited"
\* the step taken last handled a line
Handled == last.k = "line"
\* the context the process that took the last step is bound to
LastContext == context_of(procs[last.who].argv)

\* C1: when the child a wrapper instance waited on exited with status 127,
\* the instance has itself ended with status 127 instead of going back to
\* its prompt.
C1_SentinelEndsWrapper ==
    (Waited /\ last.status = SENTINEL) =>
        EndedWith(procs[last.who], SENTINEL)

\* C2: in a chain of nested wrapper instances, when the wrapper instance a
\* parent waits on has exited with status 127, the parent exits with status
\* 127 as well (and so on outwards) and does not return to its prompt.
C2_CascadeUnwindsChain ==
    [][ ( /\ Top >= 2
          /\ IsWrapper(procs[Top])
          /\ EndedWith(procs[Top], SENTINEL)
          /\ last'.k = "wait" /\ last'.res = "waited" )
        => EndedWith(procs'[Top - 1], SENTINEL) ]_vars

\* C3: when the child exited with a status other than 127, the wrapper
\* instance that waited on it is back at its prompt and has not ended.
C3_OtherStatusContinues ==
    (Waited /\ last.status \notin {SENTINEL, NoCode}) =>
        /\ procs[last.who].pc = "prompt"
        /\ Top = last.who

C3_Witness ==
    /\ Waited
    /\ last.status = EXIT_FAILURE
    /\ procs[last.who].kind = "modular"
    /\ procs[last.who].pc = "prompt"

\* C4: a wrapper instance never ends with status 127 because of an ordinary
\* (non-wrapper) program it ran, whatever that program's exit status.
C4_OrdinaryProgramNeverCascades ==
    [][ ( /\ Top >= 2
          /\ procs[Top].kind = "prog"
          /\ IsWrapper(procs[Top - 1]) )
        => ~EndedWith(procs'[Top - 1], SENTINEL) ]_vars

\* C5: at every prompt there is a terminate-all keyword: a line that
\* resolves to TerminateAll, on which the instance ends the whole chain.
C5_TerminateAllKeyword ==
    \A i \in 1..Top :
        (IsWrapper(procs[i]) /\ procs[i].pc = "prompt") =>
            \E line \in Lines :
                IF procs[i].kind = "main"
                THEN main_line(line, procs[i].argv[1]).d = "terminate_all"
                ELSE parse_cmd(line, context_of(procs[i].argv)).type
                         = "TerminateAll"

\* C6: a line whose trimmed text is e, q, exit or quit resolves to Exit for
\* every context; the instance that read it ends with status 0 without
\* spawning a child, and the wrapper instance waiting on it then returns to
\* its own prompt.
C6_ExitEndsThisInstanceOnly ==
    [][ /\ (last'.k = "line" /\ trim(last'.line) \in {S_e, S_q, S_exit, S_quit})
            => /\ \A ctx \in Contexts : parse_cmd(last'.line, ctx) = Plain("Exit")
               /\ last'.res = "exit"
               /\ Len(procs') = Len(procs)
               /\ EndedWith(procs'[last'.who], EXIT_OK)
        /\ (Handled /\ last.res = "exit" /\ last.who >= 2)
            => /\ Len(procs') = last.who - 1
               /\ procs'[last.who - 1].pc = "prompt" ]_vars

C6_Witness ==
    /\ Handled
    /\ trim(last.line) = S_q
    /\ last.line # S_q
    /\ last.who >= 2
    /\ IsWrapper(procs[last.who - 1])
    /\ EndedWith(procs[last.who], EXIT_OK)

\* C7: no wrapper instance panics, whatever lines it has handled.
C7_NeverPanics ==
    \A i \in 1..Top : IsWrapper(procs[i]) => ~EndedWith(procs[i], EXIT_PANIC)

\* the line ends inside a quote (lines without backslash or comment sign)
RECURSIVE QuoteOpenFrom(_, _, _)
QuoteOpenFrom(s, i, q) ==
    IF i > Len(s) THEN q # ""
    ELSE IF q # "" THEN QuoteOpenFrom(s, i + 1, IF s[i] = q THEN "" ELSE q)
    ELSE QuoteOpenFrom(s, i + 1, IF s[i] \in {"'", "\""} THEN s[i] ELSE "")

UnterminatedQuote(line) ==
    /\ \A i \in 1..Len(line) : line[i] \notin {"\\", "#"}
    /\ QuoteOpenFrom(line, 1, "")

\* C8: a line with an unterminated quote resolves to Error for every
\* context; handling it spawns nothing, leaves the working directory (and
\* every process) as it was, and the instance stays at its prompt.
C8_UnterminatedQuoteIsError ==
    [][ (last'.k = "line" /\ UnterminatedQuote(last'.line))
        => /\ \A ctx \in Contexts : parse_cmd(last'.line, ctx) = Plain("Error")
           /\ last'.dec.d = "error"
           /\ last'.res = "continue"
           /\ procs' = procs
           /\ procs'[last'.who].pc = "prompt" ]_vars

C8_Witness ==
    /\ Handled
    /\ UnterminatedQuote(last.line)
    /\ split(last.line).ok = FALSE
    /\ last.dec.d = "error"
    /\ procs[last.who].pc = "prompt"

BuiltinNames == {S_cd, S_clear, S_cls, S_pwd, S_history, S_help}

FirstTokenIsBuiltin(line) ==
    LET r == split(trim(line))
    IN  r.ok /\ r.words # <<>> /\ r.words[1] \in BuiltinNames

\* C9: with a bound context, a line whose first token is cd, clear, cls,
\* pwd, history or help never makes the instance run the bound program.
C9_BuiltinsBeatContext ==
    (Handled /\ FirstTokenIsBuiltin(last.line) /\ IsSome(LastContext)) =>
        /\ parse_cmd(last.line, LastContext).type # "Execute"
        /\ ~( /\ last.dec.d = "execute"
              /\ last.dec.program = Unwrap(LastContext).program )

\* C10: a line that is only the escape marker is a no-op: the instance
\* stays at its prompt, nothing is spawned and nothing fails.
C10_BareEscapeIsNoOp ==
    (Handled /\ trim(last.line) = <<"!">>) =>
        /\ last.res = "continue"
        /\ procs[last.who].pc = "prompt"
        /\ Top = last.who

(***************************************************************************)
(* Properties of the resolvers (SpecResolve)                               *)
(***************************************************************************)
WellQuoted(line) == split(trim(line)).ok
Tokens(line) == split(trim(line)).words
NotKeyword(line) == trim(line) \notin {S_e, S_q, S_exit, S_quit}
StartsWithMarker(word) == word # <<>> /\ word[1] = "!"
From(t, n) == SubSeq(t, n, Len(t))

\* C11: when the first token starts with ! and a program name follows,
\* attached or as the next token, the line resolves to Execute of that name
\* with exactly the remaining tokens, for every context (parse_cmd, the
\* scripts.rs resolver and the inline handling of run_repl alike).
C11_EscapeBypassesContext ==
    LET t == Tokens(probe.line)
        attached == Len(t[1]) > 1
        name == IF attached THEN From(t[1], 2) ELSE t[2]
        rest == IF attached THEN From(t, 2) ELSE From(t, 3)
    IN  ( /\ WellQuoted(probe.line)
          /\ t # <<>>
          /\ StartsWithMarker(t[1])
          /\ (Len(t[1]) > 1 \/ Len(t) > 1) )
        => /\ probe.op \in {"parse_cmd", "scripts"} =>
                probe.act = [type |-> "Execute", program |-> name,
                             args |-> rest, path |-> <<>>]
           /\ probe.op = "run_repl" =>
                /\ probe.dec.d = "execute"
                /\ probe.dec.program = name
                /\ probe.dec.args = rest

C11_Witness ==
    /\ probe.op = "parse_cmd"
    /\ probe.ctx = Some(TargetContext(S_git, <<S_a>>))
    /\ probe.line = Words(<< <<"!">>, S_ls, S_a >>)
    /\ probe.act.program = S_ls
    /\ probe.act.args = <<S_a>>

C13_OrdinaryLineExecutes ==
    LET t == Tokens(probe.line) IN
    ( /\ probe.op = "parse_cmd"
      /\ WellQuoted(probe.line)
      /\ NotKeyword(probe.line)
      /\ t # <<>>
      /\ t[1] \notin BuiltinNames
      /\ ~StartsWithMarker(t[1]) )
    => /\ probe.act.type = "Execute"
       /\ IF probe.ctx = <<>>
          THEN /\ probe.act.program = t[1]
               /\ probe.act.args = From(t, 2)
          ELSE /\ probe.act.program = probe.ctx[1].program
               /\ probe.act.args = probe.ctx[1].args \o t

C13_Witness ==
    /\ probe.op = "parse_cmd"
    /\ probe.line = Words(<<S_ls, S_a, S_git>>)
    /\ probe.ctx = Some(TargetContext(S_git, <<S_a>>))
    /\ probe.act.args = <<S_a, S_ls, S_a, S_git>>

\* C14: a line whose first token is cd resolves to ChangeDirectory with the
\* second token, or no path when there is none; later tokens are ignored;
\* the context plays no part.
C14_CdTakesFirstPath ==
    LET t == Tokens(probe.line) IN
    ( /\ probe.op \in {"parse_cmd", "scripts"}
      /\ WellQuoted(probe.line)
      /\ t # <<>>
      /\ t[1] = S_cd )
    => /\ probe.act.type = "ChangeDirectory"
       /\ probe.act.path = IF Len(t) >= 2 THEN <<t[2]>> ELSE <<>>

C14_Witness ==
    /\ probe.op = "parse_cmd"
    /\ probe.line = Words(<<S_cd, S_a, S_ls>>)
    /\ IsSome(probe.ctx)
    /\ probe.act.path = <<S_a>>

\* C15: clear or cls resolves to Clear and pwd to Pwd, each with exactly
\* the tokens after the first; history and help resolve to History and Help
\* and drop the remaining tokens.
C15_BuiltinsStripTheirName ==
    LET t == Tokens(probe.line) IN
    ( /\ probe.op = "parse_cmd"
      /\ WellQuoted(probe.line)
      /\ t # <<>> )
    => /\ t[1] \in {S_clear, S_cls} =>
            probe.act = [type |-> "Clear", program |-> <<>>,
                         args |-> From(t, 2), path |-> <<>>]
       /\ t[1] = S_pwd =>
            probe.act = [type |-> "Pwd", program |-> <<>>,
                         args |-> From(t, 2), path |-> <<>>]
       /\ t[1] = S_history =>
            probe.act = [type |-> "History", program |-> <<>>,
                         args |-> <<>>, path |-> <<>>]
       /\ t[1] = S_help =>
            probe.act = [type |-> "Help", program |-> <<>>,
                         args |-> <<>>, path |-> <<>>]

C15_Witness ==
    /\ probe.op = "parse_cmd"
    /\ probe.line = Words(<<S_cls, S_a, S_ls>>)
    /\ probe.act.type = "Clear"
    /\ probe.act.args = <<S_a, S_ls>>

\* C16: the descriptor for the child has exactly four cases: (absent, p)
\* gives p; (absent, absent) gives ""; (s, p) gives s/p; (s, absent) gives
\* s/ - also when s is the empty string.
C16_NextStackTable ==
    LET own == IF probe.own = <<>> THEN <<>> ELSE probe.own[1] IN
    probe.op = "compute_next_stack" =>
        /\ probe.inherited = <<>> => probe.stack = own
        /\ probe.inherited # <<>> =>
                /\ Len(probe.stack) = Len(probe.inherited[1]) + 1 + Len(own)
                /\ probe.stack = probe.inherited[1] \o <<"/">> \o own
        /\ (probe.inherited = << <<>> >> /\ probe.own = <<S_git>>)
                => probe.stack = <<"/", "g", "i", "t">>
        /\ (probe.inherited = << <<>> >> /\ probe.own = <<>>)
                => probe.stack = <<"/">>
        /\ (probe.inherited = << <<"/">> >> /\ probe.own = <<>>)
                => probe.stack = <<"/", "/">>

C16_Witness ==
    /\ probe.op = "compute_next_stack"
    /\ probe.inherited = << <<>> >>
    /\ probe.own = <<S_git>>
    /\ probe.stack = <<"/", "g", "i", "t">>

(***************************************************************************)
(* Properties of the nesting, of startup and of the prompt (Spec)          *)
(***************************************************************************)
\* the bound program of the wrapper instance p, if any
BoundProgram(p) == IF p.argv = <<>> THEN <<>> ELSE <<p.argv[1]>>

\* C17: the descriptor variable is absent exactly for the root instance:
\* every process spawned by a wrapper instance has it present, and present
\* but empty exactly when its parent is the root with no bound program.
C17_DescriptorMarksDepth ==
    \A i \in 1..Len(procs) :
        /\ (procs[i].stack = <<>>) <=> (i = 1)
        /\ i > 1 =>
              ( (procs[i].stack = << <<>> >>)
                    <=> (i = 2 /\ BoundProgram(procs[1]) = <<>>) )

\* C18: when spawning the resolved program fails, the instance neither
\* crashes nor exits: it is back at its prompt, with its bound context and
\* working directory unchanged, and no process was added to the chain.
C18_SpawnFailureContinues ==
    [][ ( /\ last'.k = "line"
          /\ last'.dec.d = "execute"
          /\ (last'.dec.program \notin Installed \/ last'.res = "spawn_failed") )
        => /\ Len(procs') = Len(procs)
           /\ \A i \in 1..Len(procs) : i # last'.who => procs'[i] = procs[i]
           /\ procs'[last'.who].pc = "prompt"
           /\ procs'[last'.who].code = NoCode
           /\ procs'[last'.who].argv = procs[last'.who].argv
           /\ procs'[last'.who].cwd = procs[last'.who].cwd
           /\ procs'[last'.who].stack = procs[last'.who].stack ]_vars

C18_Witness ==
    /\ last.k = "line"
    /\ last.dec.d = "execute"
    /\ last.dec.program \notin Installed
    /\ last.res = "spawn_failed"
    /\ IsWrapper(procs[last.who])
    /\ procs[last.who].pc = "prompt"
    /\ Top = last.who

\* C19: any startup argument sequence is accepted (none, one or several
\* arguments): an instance that ends at startup with status 1 does so only
\* because the editor or the environment could not be initialised.
C19_AnyArgumentsAccepted ==
    ( /\ last.k = "start"
      /\ EndedWith(procs[last.who], EXIT_FAILURE) )
    => last.res = "editor_failed"

\* C20: an interrupt received while the instance waits for input never
\* terminates it: the instance stays at its prompt.
C20_InterruptAtPromptIgnored ==
    ( /\ last.k = "readerr"
      /\ last.res = "Interrupted" )
    => /\ procs[last.who].pc = "prompt"
       /\ procs[last.who].code = NoCode

(***************************************************************************)
(* Further properties of the resolvers (SpecResolve)                       *)
(***************************************************************************)
\* the text is a terminate keyword with nothing but white space around it
PaddedKeyword(line) ==
    \E i \in 1..Len(line), j \in 1..Len(line) :
        /\ i <= j
        /\ SubSeq(line, i, j) \in {S_e, S_q, S_exit, S_quit}
        /\ \A n \in 1..Len(line) :
              (n < i \/ n > j) => line[n] \in {" ", "\t", "\n", "\r"}

\* C21: a line resolves to Exit if and only if its trimmed text is exactly
\* e, q, exit or quit - in parse_cmd, in the scripts.rs resolver and in
\* run_repl; a quoted keyword ("exit") or a keyword followed by a token
\* (exit a) does not terminate and is resolved as an ordinary line.
C21_TerminateOnRawTrimmedLine ==
    /\ probe.op \in {"parse_cmd", "scripts"} =>
          ((probe.act.type = "Exit") <=> PaddedKeyword(probe.line))
    /\ probe.op = "run_repl" =>
          ((probe.dec.d = "break") <=> PaddedKeyword(probe.line))
    /\ ( /\ probe.op = "parse_cmd"
         /\ probe.line \in { <<"\"">> \o S_exit \o <<"\"">>,
                             S_exit \o <<" ", "a">> } )
       => /\ probe.act.type = "Execute"
          /\ probe.ctx = <<>> => probe.act.program = S_exit
          /\ probe.ctx # <<>> =>
                /\ probe.act.program = probe.ctx[1].program
                /\ probe.act.args[Len(probe.ctx[1].args) + 1] = S_exit

C21_Witness ==
    /\ probe.op = "parse_cmd"
    /\ probe.line = <<"\"">> \o S_exit \o <<"\"">>
    /\ probe.ctx = Some(TargetContext(S_git, <<S_a>>))
    /\ probe.act = Execute(S_git, <<S_a, S_exit>>)

(***************************************************************************)
(* Further properties of the process chain (Spec)                          *)
(***************************************************************************)
\* C22: a wrapper instance that has a live child is blocked in wait and the
\* only process that reads and resolves a line is the innermost one, at its
\* prompt: in every chain all the ancestors are wrapper instances in wait.
C22_OnlyInnermostPrompts ==
    [][ /\ \A i \in 1..(Len(procs') - 1) :
              /\ IsWrapper(procs'[i])
              /\ procs'[i].pc = "wait"
        /\ last'.k = "line" =>
              /\ last'.who = Len(procs)
              /\ procs[last'.who].pc = "prompt" ]_vars

C22_Witness ==
    /\ Len(procs) = MaxDepth
    /\ \A i \in 1..(Len(procs) - 1) : procs[i].pc = "wait"
    /\ IsWrapper(procs[Len(procs)])
    /\ procs[Len(procs)].pc = "prompt"
    /\ last.k = "line"
    /\ last.who = Len(procs)

\* C23: no step changes the inherited descriptor of a live process - not
\* its own spawning of a child, not anything a descendant does - and all the
\* children an instance spawns over its lifetime receive the same descriptor.
C23_DescriptorIsCopyOnSpawn ==
    [][ /\ \A i \in 1..Len(procs) :
              i <= Len(procs') => procs'[i].stack = procs[i].stack
        /\ \A i \in 1..Len(procs') :
              Len(procs'[i].given) = 2 =>
                  procs'[i].given[1] = procs'[i].given[2] ]_vars

C23_Witness ==
    /\ Len(procs) = 2
    /\ procs[1].kind = "modular"
    /\ procs[1].argv # <<>>
    /\ Len(procs[1].given) = 2
    /\ procs[2].stack = procs[1].given[2]
    /\ procs[2].stack = Some(procs[1].argv[1])
    /\ procs[1].stack = None

\* the line is a cd that cannot succeed from cwd: no path, or a path that
\* set_current_dir refuses
FailingCd(line, cwd) ==
    LET r == split(trim(line))
    IN  /\ r.ok
        /\ r.words # <<>>
        /\ r.words[1] = S_cd
        /\ \/ Len(r.words) = 1
           \/ set_current_dir(cwd, r.words[2]) = <<>>

SlashCount(s) == Cardinality({i \in 1..Len(s) : s[i] = "/"})

\* s split on "/": the pieces between the separators, empty ones included
RECURSIVE SplitSlashFrom(_, _, _, _)
SplitSlashFrom(s, i, piece, pieces) ==
    IF i > Len(s) THEN Append(pieces, piece)
    ELSE IF s[i] = "/"
         THEN SplitSlashFrom(s, i + 1, <<>>, Append(pieces, piece))
         ELSE SplitSlashFrom(s, i + 1, Append(piece, s[i]), pieces)

SplitSlash(s) == SplitSlashFrom(s, 1, <<>>, <<>>)

\* the bound program names of a chain, an absent binding as the empty string
Names(chain) ==
    [i \in 1..Len(chain) |-> IF chain[i] = <<>> THEN <<>> ELSE chain[i][1]]

\* C25: for a chain of d nested instances the descriptor the d-th instance
\* gives to the process it spawns has exactly d-1 separators and splits on
\* the separator into the d bound program names, outermost first, an
\* absent binding as the empty string; no other chain gives that descriptor.
C25_DescriptorEncodesChain ==
    probe.op = "nested" =>
        /\ SlashCount(probe.stack) = Len(probe.chain) - 1
        /\ SplitSlash(probe.stack) = Names(probe.chain)
        /\ \A other \in Chains :
              other # probe.chain =>
                  stack_for_child(other) # <<probe.stack>>

C25_Witness ==
    /\ probe.op = "nested"
    /\ probe.chain = <<None, Some(S_git), None>>
    /\ probe.stack = <<"/", "g", "i", "t", "/">>

(***************************************************************************)
(* Properties of waiting (Spec)                                            *)
(***************************************************************************)
\* C26: when the child ended without an exit code (killed by a signal) or
\* waiting on it failed, the wrapper instance does not end with status 127
\* (nor at all): it is back at its prompt.
C26_NoCodeNeverCascades ==
    ( /\ last.k = "wait"
      /\ (last.res = "wait_failed" \/ last.status = NoCode) )
    => /\ IsWrapper(procs[last.who])
       /\ ~EndedWith(procs[last.who], SENTINEL)
       /\ procs[last.who].pc = "prompt"
       /\ Len(procs) = last.who

C26_Witness ==
    /\ last.k = "wait"
    /\ last.res = "waited"
    /\ last.status = NoCode
    /\ procs[last.who].kind = "modular"
    /\ procs[last.who].pc = "prompt"

(***************************************************************************)
(* Properties of the resolved program name (SpecResolve)                   *)
(***************************************************************************)
\* C27: every Execute action parse_cmd produces (parser.rs and scripts.rs
\* alike) has a non-empty program name, for every line, when the context is
\* absent or binds a non-empty program name.
C27_ExecuteHasProgram ==
    ( /\ probe.op \in {"parse_cmd", "scripts"}
      /\ probe.act.type = "Execute"
      /\ (probe.ctx = <<>> \/ probe.ctx[1].program # <<>>) )
    => probe.act.program # <<>>

====
